---- MODULE Spec2Model ----
(***************************************************************************)
(* Bracket / voting engine of the song tournament:                         *)
(*   core/services/tournament_service.py  (VotingSessionService)           *)
(*   apps/tournament/models.py            (Song, VotingSession, Match,     *)
(*                                         Vote)                           *)
(* The database is SQLite in WAL mode (config/settings/base.py).           *)
(***************************************************************************)
EXTENDS Integers, Sequences, FiniteSets, Bags, TLC

\* ---------------------------------------------------------------- bounds
\* largest number of Song rows in the catalog
MaxPool == 5
\* largest number of VotingSession rows
MaxSessions == 2
\* random.shuffle draws a permutation: the rotations by 0..MaxShuffle
MaxShuffle == 1
\* largest number of storage exceptions injected in one behaviour
MaxFaults == 1
\* largest catalog when storage exceptions are injected
FaultPool == 4
\* largest catalog when the callers' session operations are exercised
SessPool == 3
\* largest catalog when the selection policy is exercised
BigPool == 129
\* longest song list given to generate_bracket_structure on its own
MaxListLen == 1025
\* number of concurrent cast_vote requests
NProcs == 2
\* largest number of VotingSession rows when sessions are started anew
LifeSessions == 3
\* largest catalog when sessions are started anew
LifePool == 2
\* the song lists given to the round names have 2^0 .. 2^MaxDepth songs
MaxDepth == 9
\* largest catalog when requests run concurrently
ConcPool == 3

\* ------------------------------------------------------ program constants
TargetSize == 128
max_rounds == 10
MaxAttempts == 3

\* ------------------------------------------------------------ song refs
\* A bracket entry is a song dict {'id': ..}, a placeholder dict
\* {'placeholder': True, 'from_match': k} or None (winner not decided).
\* Song dict = its id (1..), None = 0, placeholder from_match k = -k.
None == 0

Placeholder(k) == 0 - k

\* dict.get('id'): the id of a song dict, None for a placeholder
GetId(ref) == IF ref > 0 THEN ref ELSE None

\* ids a request may carry: the catalog ids and one id of no Song row
UnknownId == MaxPool + 1

\* a chosen_song_id that is not the text of a UUID: the Song query of
\* lines 272-273 raises ValidationError for it
MalformedId == MaxPool + 2

\* ---------------------------------------------------------------- state
VARIABLES
    songs,      \* Song table: id -> counters
    sessions,   \* VotingSession table: sequence of rows, id = index
    matches,    \* Match table: set of rows, key (session, round, match)
    votes,      \* Vote table: bag of rows
    last,       \* outcome of the last finished service call
    nfaults,    \* storage exceptions injected so far
    procs,      \* the cast_vote requests in flight, one per worker
    wlock       \* holder of the database write lock, 0 when free

vars == <<songs, sessions, matches, votes, last, nfaults, procs, wlock>>

Procs == 1..NProcs

\* chosen_song_id of a request: a catalog id, the id of no Song row or a
\* text that is no id
RequestIds == DOMAIN songs \cup {UnknownId, MalformedId}

NewSong == [total_wins |-> 0, total_losses |-> 0, total_picks |-> 0, tournament_wins |-> 0]

\* ------------------------------------------------- bracket construction
\* the matches of one round: consecutive pairs of current_songs
RoundMatches(current_songs) ==
    [k \in 1..(Len(current_songs) \div 2) |->
        [match_number |-> k,
         song1 |-> current_songs[2 * k - 1],
         song2 |-> current_songs[2 * k],
         winner |-> None,
         completed |-> FALSE]]

\* next_round_songs: one placeholder per match, then the unpaired song
NextRoundSongs(current_songs) ==
    [k \in 1..((Len(current_songs) + 1) \div 2) |->
        IF 2 * k <= Len(current_songs)
        THEN Placeholder(k)
        ELSE current_songs[2 * k - 1]]

RECURSIVE BuildRounds(_, _, _)
BuildRounds(current_songs, round_num, bracket) ==
    IF Len(current_songs) > 1 /\ round_num <= max_rounds
    THEN LET ms == RoundMatches(current_songs)
         IN  IF ms = <<>>
             THEN [bracket |-> bracket, round_num |-> round_num]
             ELSE BuildRounds(NextRoundSongs(current_songs), round_num + 1,
                              Append(bracket, ms))
    ELSE [bracket |-> bracket, round_num |-> round_num]

\* the bracket dict {'round_1': [...], ...} as the sequence of its rounds;
\* <<>> stands for both None and the empty dict (both are falsy)
generate_bracket_structure(song_list) ==
    IF song_list = <<>>
    THEN <<>>
    ELSE LET b == BuildRounds(song_list, 1, <<>>)
         IN  IF b.round_num > max_rounds THEN <<>> ELSE b.bracket

\* ------------------------------------------------------ session creation
\* list(Song.objects.all()): the rows in storage order, ids 1..n
AllSongs == [i \in 1..Cardinality(DOMAIN songs) |-> i]

\* the sets of d positions of a list of n elements
RECURSIVE LeftOut(_, _)
LeftOut(n, d) ==
    IF d = 0 THEN {{}}
    ELSE UNION {{D \cup {i} : i \in {j \in 1..n : \A x \in D : x < j}} :
                   D \in LeftOut(n, d - 1)}

\* list s without the elements at the positions D
Without(s, D) ==
    [i \in 1..(Len(s) - Cardinality(D)) |->
        s[CHOOSE p \in i..(i + Cardinality(D)) :
             p \notin D /\ p - Cardinality({x \in D : x < p}) = i]]

\* random.sample(all_songs, 128): TargetSize distinct songs of the list
\* (the order drawn is left to the shuffle that follows)
Samples(all_songs) ==
    {Without(all_songs, D) :
        D \in {E \in LeftOut(Len(all_songs), Len(all_songs) - TargetSize) :
                  Cardinality(E) = Len(all_songs) - TargetSize}}

\* the selection without the duplicate that makes an odd pool even
SelectedSongs_no_pad(all_songs) ==
    IF Len(all_songs) = 1 THEN {all_songs \o all_songs}
    ELSE IF Len(all_songs) < TargetSize
    THEN {all_songs}
    ELSE Samples(all_songs)

\* the selection without the duplication of a single song
SelectedSongs_single(all_songs) ==
    IF Len(all_songs) < TargetSize
    THEN {IF Len(all_songs) % 2 # 0 /\ Len(all_songs) > 1
          THEN Append(all_songs, all_songs[1])
          ELSE all_songs}
    ELSE Samples(all_songs)

\* the candidates for selected_songs before the shuffle
SelectedSongs(all_songs) ==
    IF Len(all_songs) = 1 THEN {all_songs \o all_songs}
    ELSE IF Len(all_songs) < TargetSize
    THEN {IF Len(all_songs) % 2 # 0
          THEN Append(all_songs, all_songs[1])
          ELSE all_songs}
    ELSE Samples(all_songs)

\* random.shuffle: the permutation drawn is rotation by k
Shuffle(s, k) == [i \in 1..Len(s) |-> s[((i - 1 + k) % Len(s)) + 1]]

\* The caller of a session operation: request.user (0: not authenticated)
\* and request.session.session_key (0: None).
User1 == [user |-> 1, session_key |-> None]

Anon1 == [user |-> None, session_key |-> 1]

Identities == {User1, Anon1}

\* the caller on whose behalf the voting engine is exercised
Creators == {User1}

\* the new row with the cursor counted from 0
NewSession_match0(bracket, user, session_key, now) ==
    [user |-> user,
     session_key |-> session_key,
     bracket_data |-> bracket,
     current_round |-> 1,
     current_match |-> 0,
     status |-> "ACTIVE",
     updated_at |-> now]

\* VotingSession.objects.create(...): the new row. Ids are the row numbers,
\* so a new row has the largest primary key; updated_at (auto_now) is kept
\* as the row's rank among the rows, the largest being the latest save.
NewSession(bracket, user, session_key, now) ==
    [user |-> user,
     session_key |-> session_key,
     bracket_data |-> bracket,
     current_round |-> 1,
     current_match |-> 1,
     status |-> "ACTIVE",
     updated_at |-> now]

\* Model.save() of session object s as row sid: every field is written and
\* updated_at becomes the latest
SaveSession(session_tbl, sid, s) ==
    [i \in DOMAIN session_tbl |->
        IF i = sid
        THEN [s EXCEPT !.updated_at = Len(session_tbl)]
        ELSE IF session_tbl[i].updated_at > session_tbl[sid].updated_at
        THEN [session_tbl[i] EXCEPT !.updated_at = @ - 1]
        ELSE session_tbl[i]]

\* lines 36-62: the brackets create_voting_session can build; empty when
\* it returns None before the row is created
NewBrackets ==
    IF Cardinality(DOMAIN songs) < 1 THEN {}
    ELSE {generate_bracket_structure(Shuffle(sel, k)) :
             sel \in SelectedSongs(AllSongs), k \in 0..MaxShuffle} \ {<<>>}

\* the reason for `return None`
CreateError == IF Cardinality(DOMAIN songs) < 1 THEN "no_songs" ELSE "no_bracket"

\* a commit by `writer` (0: a request outside procs): the snapshot of every
\* transaction that has read and not yet written is out of date
StaleAfterCommit(writer) ==
    [q \in DOMAIN procs |->
        IF q # writer /\ procs[q].pc = "insert"
        THEN [procs[q] EXCEPT !.stale = TRUE]
        ELSE procs[q]]

\* lines 64-76: the row is created. VotingSession.objects.create is a
\* write: it needs the write lock
CreateRow(bracket_data, user, session_key) ==
    /\ wlock = 0
    /\ sessions' = Append(sessions, NewSession(bracket_data, user, session_key,
                                               Len(sessions) + 1))
    /\ procs' = StaleAfterCommit(0)
    /\ UNCHANGED <<songs, matches, votes, nfaults, wlock>>

\* VotingSessionService.create_voting_session(user, session_key)
create_voting_session(user, session_key) ==
    /\ Len(sessions) < MaxSessions
    /\ IF NewBrackets = {}
       THEN /\ last' = [op |-> "create", ok |-> FALSE, err |-> CreateError]
            /\ UNCHANGED <<songs, sessions, matches, votes, nfaults, procs, wlock>>
       ELSE \E bracket_data \in NewBrackets :
              /\ CreateRow(bracket_data, user, session_key)
              /\ last' = [op |-> "create", ok |-> TRUE, err |-> ""]

\* the voting engine's caller starts a session
StartSession == \E c \in Creators : create_voting_session(c.user, c.session_key)

\* ---------------------------------------------------------- session model
\* VotingSession.get_current_match_data: <<slot>>, or <<>> for None
get_current_match_data(s) ==
    IF s.status = "COMPLETED" THEN <<>>
    ELSE IF s.bracket_data = <<>> THEN <<>>
    ELSE IF s.current_round \notin 1..Len(s.bracket_data) THEN <<>>
    ELSE IF s.current_match <= Len(s.bracket_data[s.current_round])
         THEN <<s.bracket_data[s.current_round][s.current_match]>>
         ELSE <<>>

\* advance_to_next_match with `<=` for `<` in the match comparison
advance_to_next_match_le(s) ==
    IF s.current_round \in 1..Len(s.bracket_data)
    THEN IF s.current_match <= Len(s.bracket_data[s.current_round])
         THEN [s EXCEPT !.current_match = @ + 1]
         ELSE IF s.current_round + 1 \in 1..Len(s.bracket_data)
              THEN [s EXCEPT !.current_round = @ + 1, !.current_match = 1]
              ELSE [s EXCEPT !.status = "COMPLETED"]
    ELSE s

\* VotingSession.advance_to_next_match, the cursor and status part
advance_to_next_match(s) ==
    IF s.current_round \in 1..Len(s.bracket_data)
    THEN IF s.current_match < Len(s.bracket_data[s.current_round])
         THEN [s EXCEPT !.current_match = @ + 1]
         ELSE IF s.current_round + 1 \in 1..Len(s.bracket_data)
              THEN [s EXCEPT !.current_round = @ + 1, !.current_match = 1]
              ELSE [s EXCEPT !.status = "COMPLETED"]
    ELSE s

\* advance_to_next_match reaches self._record_tournament_winner()
RecordsWinner(s) ==
    /\ s.current_round \in 1..Len(s.bracket_data)
    /\ s.current_match >= Len(s.bracket_data[s.current_round])
    /\ s.current_round + 1 \notin 1..Len(s.bracket_data)

\* _record_tournament_winner crediting song1 of the final for its winner
_record_tournament_winner_song1(s, song_tbl) ==
    IF s.current_round \in 1..Len(s.bracket_data)
    THEN LET final_matches == s.bracket_data[s.current_round]
         IN  IF final_matches # <<>> /\ final_matches[1].winner # None
                /\ final_matches[1].song1 \in DOMAIN song_tbl
             THEN [song_tbl EXCEPT ![final_matches[1].song1].tournament_wins = @ + 1]
             ELSE song_tbl
    ELSE song_tbl

\* VotingSession._record_tournament_winner: the Song row it saves
\* (Song.objects.get loads the whole row, save() writes it back)
_record_tournament_winner(s, song_tbl) ==
    IF s.current_round \in 1..Len(s.bracket_data)
    THEN LET final_matches == s.bracket_data[s.current_round]
         IN  IF final_matches # <<>> /\ final_matches[1].winner # None
                /\ final_matches[1].winner \in DOMAIN song_tbl
             THEN [song_tbl EXCEPT ![final_matches[1].winner].tournament_wins = @ + 1]
             ELSE song_tbl
    ELSE song_tbl

\* `if match['winner']`: a dict is truthy, None is not
HasWinner(w) == w # None

\* update_next_round that leaves the next round as it was built
update_next_round_skip(s) == s

\* VotingSessionService.update_next_round
update_next_round(s) ==
    LET current_matches == s.bracket_data[s.current_round]
        all_completed == \A i \in 1..Len(current_matches) : current_matches[i].completed
        nr == s.current_round + 1
    IN  IF all_completed /\ nr \in 1..Len(s.bracket_data)
        THEN LET winners == SelectSeq([i \in 1..Len(current_matches) |->
                                          current_matches[i].winner], HasWinner)
                 next_round_matches == s.bracket_data[nr]
             IN  [s EXCEPT !.bracket_data[nr] =
                    [i \in 1..Len(next_round_matches) |->
                       [next_round_matches[i] EXCEPT
                          !.song1 = IF (i - 1) * 2 < Len(winners)
                                    THEN winners[(i - 1) * 2 + 1] ELSE @,
                          !.song2 = IF (i - 1) * 2 + 1 < Len(winners)
                                    THEN winners[(i - 1) * 2 + 2] ELSE @]]]
        ELSE s

\* the slot at the cursor of a session object
CurrentSlot(s) == s.bracket_data[s.current_round][s.current_match]

\* the slot update that sets the winner and leaves the completed flag
SetSlotWinner_no_flag(s, chosen) ==
    [s EXCEPT !.bracket_data[s.current_round][s.current_match] =
        [@ EXCEPT !.winner = chosen]]

\* cast_vote lines 344-353: the winner and the completed flag of the slot
SetSlotWinner(s, chosen) ==
    [s EXCEPT !.bracket_data[s.current_round][s.current_match] =
        [@ EXCEPT !.winner = chosen, !.completed = TRUE]]

\* cast_vote lines 320-322: chosen_song counters, loaded then saved
SaveChosen(song_tbl, chosen) ==
    [song_tbl EXCEPT ![chosen].total_wins = @ + 1,
                     ![chosen].total_picks = @ + 1]

\* cast_vote line 324
Loser(chosen, song1_id, song2_id) == IF chosen = song1_id THEN song2_id ELSE song1_id

\* the loser update without the total_picks increment
SaveLoser_no_picks(song_tbl, loser) ==
    [song_tbl EXCEPT ![loser].total_losses = @ + 1]

\* cast_vote lines 325-327: loser counters, loaded then saved
SaveLoser(song_tbl, loser) ==
    [song_tbl EXCEPT ![loser].total_losses = @ + 1,
                     ![loser].total_picks = @ + 1]

MatchRow(sid, s, song1_id, song2_id, chosen) ==
    [session |-> sid, round_number |-> s.current_round,
     match_number |-> s.current_match,
     song1 |-> song1_id, song2 |-> song2_id, winner |-> chosen]

VoteRow(sid, s, chosen) ==
    [match |-> <<sid, s.current_round, s.current_match>>,
     session |-> sid, chosen_song |-> chosen]

\* Match.objects.filter(session, round_number, match_number).first()
ExistingMatch(match_tbl, sid, s) ==
    {m \in match_tbl : /\ m.session = sid
                       /\ m.round_number = s.current_round
                       /\ m.match_number = s.current_match}

\* ------------------------------------------------------------- cast_vote
\* The exceptions a storage call of cast_vote can raise, as an input:
\*   locked        Match.objects.create raises OperationalError
\*                 "database is locked" in the first n attempts
\*   stats_read    loading chosen_song's counters raises (line 320)
\*   loser_read    loading the loser's counters raises (line 325)
\*   stats_save    chosen_song.save() raises (line 322)
\*   winner_get    Song.objects.get in _record_tournament_winner raises
\*   session_save  self.save() in advance_to_next_match raises
FaultKinds == {"locked", "stats_read", "loser_read", "stats_save",
               "winner_get", "session_save"}

NoFault == [kind |-> "none", n |-> 0]

Faults == {[kind |-> "locked", n |-> k] : k \in 1..MaxAttempts}
          \cup {[kind |-> f, n |-> 0] : f \in FaultKinds \ {"locked"}}

Db == [songs |-> songs, sessions |-> sessions, matches |-> matches, votes |-> votes]

Ret(ok, err, db) == [ok |-> ok, err |-> err, exc |-> "", db |-> db, attempts |-> 0]

\* an exception that leaves the atomic block: the transaction is rolled back
Raise(exc, db) == [ok |-> FALSE, err |-> exc, exc |-> exc, db |-> db, attempts |-> 0]

\* lines 318-373 of one attempt, after the Match and Vote rows are created.
\* A save() that raises marks the transaction for rollback: every later
\* query raises, the block returns False and is rolled back on exit.
VoteWrites(db, sid, s, chosen, fault) ==
    LET song1_id == GetId(CurrentSlot(s).song1)
        song2_id == GetId(CurrentSlot(s).song2)
        match_tbl == db.matches \cup {MatchRow(sid, s, song1_id, song2_id, chosen)}
        vote_tbl == db.votes (+) SetToBag({VoteRow(sid, s, chosen)})
        needs_rollback == fault.kind = "stats_save"
        songs1 == IF fault.kind \in {"stats_read", "stats_save"}
                  THEN db.songs
                  ELSE IF fault.kind = "loser_read"
                  THEN SaveChosen(db.songs, chosen)
                  ELSE SaveLoser(SaveChosen(db.songs, chosen),
                                 Loser(chosen, song1_id, song2_id))
        s1 == update_next_round(SetSlotWinner(s, chosen))
        s2 == advance_to_next_match(s1)
    IN  IF RecordsWinner(s1) /\ (needs_rollback \/ fault.kind = "winner_get")
        THEN IF needs_rollback
             THEN Ret(FALSE, "advance_error", db)
             ELSE Ret(FALSE, "advance_error",
                      [db EXCEPT !.matches = match_tbl, !.votes = vote_tbl,
                                 !.songs = songs1])
        ELSE IF needs_rollback \/ fault.kind = "session_save"
        THEN Ret(FALSE, "advance_error", db)
        ELSE Ret(TRUE, "",
                 [songs |-> IF RecordsWinner(s1)
                            THEN _record_tournament_winner(s2, songs1)
                            ELSE songs1,
                  sessions |-> SaveSession(db.sessions, sid, s2),
                  matches |-> match_tbl,
                  votes |-> vote_tbl])

\* the validation without the check of lines 282-284
ValidateVote_any_choice(db, sid, s, chosen) ==
    LET match_data == get_current_match_data(s)
    IN  IF match_data = <<>> THEN "no_match_data"
        ELSE
        LET song1_id == GetId(match_data[1].song1)
            song2_id == GetId(match_data[1].song2)
            unique_song_ids == {chosen, song1_id, song2_id}
        IN  IF song1_id = None \/ song2_id = None
            THEN "invalid_match_data"
            ELSE IF chosen = MalformedId
            THEN "validation_error"
            ELSE IF Cardinality(unique_song_ids \cap DOMAIN db.songs)
                        # Cardinality(unique_song_ids)
            THEN "songs_not_found"
            ELSE IF ExistingMatch(db.matches, sid, s) # {}
            THEN "match_exists"
            ELSE ""

\* lines 254-299 of one attempt: the reason for `return False`, "" if none;
\* "validation_error" is the ValidationError of the Song query, which is
\* not caught by `except (KeyError, ValueError)` and leaves the block
ValidateVote(db, sid, s, chosen) ==
    LET match_data == get_current_match_data(s)
    IN  IF match_data = <<>> THEN "no_match_data"
        ELSE
        LET song1_id == GetId(match_data[1].song1)
            song2_id == GetId(match_data[1].song2)
            unique_song_ids == {chosen, song1_id, song2_id}
        IN  IF song1_id = None \/ song2_id = None
            THEN "invalid_match_data"
            ELSE IF chosen = MalformedId
            THEN "validation_error"
            ELSE IF Cardinality(unique_song_ids \cap DOMAIN db.songs)
                        # Cardinality(unique_song_ids)
            THEN "songs_not_found"
            ELSE IF chosen \notin {song1_id, song2_id}
            THEN "invalid_choice"
            ELSE IF ExistingMatch(db.matches, sid, s) # {}
            THEN "match_exists"
            ELSE ""

\* one pass of the `with transaction.atomic()` block, lines 253-376
VoteAttempt(db, sid, s, chosen, fault, attempt) ==
    LET invalid == ValidateVote(db, sid, s, chosen)
    IN  IF invalid = "validation_error" THEN Raise(invalid, db)
        ELSE IF invalid # "" THEN Ret(FALSE, invalid, db)
        ELSE IF fault.kind = "locked" /\ attempt < fault.n
        THEN Raise("locked", db)
        ELSE VoteWrites(db, sid, s, chosen, fault)

\* `for attempt in range(3)`: an exception that leaves the atomic block
\* (OperationalError "database is locked", or any other that is not an
\* IntegrityError) leads to another pass while attempt < 2; attempts is the
\* number of passes made
RECURSIVE VoteLoop(_, _, _, _, _, _)
VoteLoop(db, sid, s, chosen, fault, attempt) ==
    IF attempt >= MaxAttempts
    THEN [Ret(FALSE, "attempts_exhausted", db) EXCEPT !.attempts = attempt]
    ELSE LET r == VoteAttempt(db, sid, s, chosen, fault, attempt)
         IN  IF r.exc # "" /\ attempt < MaxAttempts - 1
             THEN VoteLoop(db, sid, s, chosen, fault, attempt + 1)
             ELSE [r EXCEPT !.attempts = attempt + 1]

\* cast_vote without the status check of lines 246-248
cast_vote_any_status(db, sid, s, chosen, fault) ==
    VoteLoop(db, sid, s, chosen, fault, 0)

\* VotingSessionService.cast_vote(session, chosen_song_id)
cast_vote(db, sid, s, chosen, fault) ==
    IF s.status # "ACTIVE"
    THEN Ret(FALSE, "inactive", db)
    ELSE VoteLoop(db, sid, s, chosen, fault, 0)

\* the request: the view loads the row, then calls the service
Vote(sid, chosen, fault) ==
    LET r == cast_vote(Db, sid, sessions[sid], chosen, fault)
    IN  /\ songs' = r.db.songs
        /\ sessions' = r.db.sessions
        /\ matches' = r.db.matches
        /\ votes' = r.db.votes
        /\ last' = [op |-> "vote", ok |-> r.ok, err |-> r.err]

CastVote ==
    \E sid \in 1..Len(sessions), chosen \in RequestIds :
        /\ Vote(sid, chosen, NoFault)
        /\ UNCHANGED <<nfaults, procs, wlock>>

CastVoteFault ==
    /\ nfaults < MaxFaults
    /\ \E sid \in 1..Len(sessions), chosen \in RequestIds, fault \in Faults :
        /\ Vote(sid, chosen, fault)
        /\ nfaults' = nfaults + 1
        /\ UNCHANGED <<procs, wlock>>

\* ------------------------------------------- cast_vote, request by request
\* Concurrent requests. SQLite in WAL mode: a transaction reads from the
\* snapshot of its first read; its first write takes the database write
\* lock, which one connection holds at a time, and fails with "database is
\* locked" when the lock is not obtained or the snapshot is no longer the
\* latest commit; the writes become visible to others at commit.
NoSession == [user |-> None, session_key |-> None, bracket_data |-> <<>>,
              current_round |-> 0, current_match |-> 0, status |-> "NONE",
              updated_at |-> 0]

IdleProc == [pc |-> "idle", sid |-> 0, chosen |-> 0, session |-> NoSession,
             attempt |-> 0, stale |-> FALSE, pending |-> <<>>,
             ok |-> FALSE, err |-> ""]

Done(pr, ok, err) ==
    [pr EXCEPT !.pc = "done", !.ok = ok, !.err = err, !.pending = <<>>]

\* the view loads the session row (VotingSession.objects.get) and calls
\* cast_vote, which returns at once for a session that is not ACTIVE
Load(p) ==
    /\ procs[p].pc = "idle"
    /\ \E sid \in 1..Len(sessions), chosen \in RequestIds :
         LET pr == [procs[p] EXCEPT !.sid = sid, !.chosen = chosen,
                                    !.session = sessions[sid]]
         IN  IF sessions[sid].status # "ACTIVE"
             THEN /\ procs' = [procs EXCEPT ![p] = Done(pr, FALSE, "inactive")]
                  /\ last' = [op |-> "vote", ok |-> FALSE, err |-> "inactive"]
             ELSE /\ procs' = [procs EXCEPT ![p] = [pr EXCEPT !.pc = "txn"]]
                  /\ UNCHANGED last
    /\ UNCHANGED <<songs, sessions, matches, votes, nfaults, wlock>>

\* the atomic block is entered and the reads of lines 254-299 are made
TxnRead(p) ==
    /\ procs[p].pc = "txn"
    /\ LET pr == procs[p]
           invalid == ValidateVote(Db, pr.sid, pr.session, pr.chosen)
       IN  IF invalid = "validation_error" /\ pr.attempt < MaxAttempts - 1
           THEN /\ procs' = [procs EXCEPT ![p] = [pr EXCEPT !.attempt = @ + 1]]
                /\ UNCHANGED last
           ELSE IF invalid # ""
           THEN /\ procs' = [procs EXCEPT ![p] = Done(pr, FALSE, invalid)]
                /\ last' = [op |-> "vote", ok |-> FALSE, err |-> invalid]
           ELSE /\ procs' = [procs EXCEPT ![p] = [pr EXCEPT !.pc = "insert",
                                                            !.stale = FALSE]]
                /\ UNCHANGED last
    /\ UNCHANGED <<songs, sessions, matches, votes, nfaults, wlock>>

\* a write lock that is not exclusive: only the snapshot is checked
CanWrite_shared(p) == ~procs[p].stale

\* the first write of a transaction obtains the write lock
CanWrite(p) == wlock = 0 /\ ~procs[p].stale

\* unique_together = ['session', 'round_number', 'match_number']
UniqueViolation(match_tbl, sid, s) ==
    \E m \in match_tbl : /\ m.session = sid
                         /\ m.round_number = s.current_round
                         /\ m.match_number = s.current_match

\* Match.objects.create takes the write lock; the rest of the block
\* (lines 301-373) runs under it
InsertMatch(p) ==
    /\ procs[p].pc = "insert"
    /\ CanWrite(p)
    /\ LET pr == procs[p]
       IN  IF UniqueViolation(matches, pr.sid, pr.session)
           THEN /\ procs' = [procs EXCEPT ![p] = Done(pr, FALSE, "integrity_error")]
                /\ last' = [op |-> "vote", ok |-> FALSE, err |-> "integrity_error"]
                /\ UNCHANGED wlock
           ELSE /\ procs' = [procs EXCEPT ![p] =
                      [pr EXCEPT !.pc = "commit",
                                 !.pending = <<VoteWrites(Db, pr.sid, pr.session,
                                                          pr.chosen, NoFault).db>>]]
                /\ wlock' = p
                /\ UNCHANGED last
    /\ UNCHANGED <<songs, sessions, matches, votes, nfaults>>

\* Match.objects.create raises OperationalError "database is locked":
\* lines 381-388, another pass while attempt < 2
InsertLocked(p) ==
    /\ procs[p].pc = "insert"
    /\ ~CanWrite(p)
    /\ LET pr == procs[p]
       IN  IF pr.attempt < MaxAttempts - 1
           THEN /\ procs' = [procs EXCEPT ![p] = [pr EXCEPT !.pc = "txn",
                                                            !.attempt = @ + 1]]
                /\ UNCHANGED last
           ELSE /\ procs' = [procs EXCEPT ![p] = Done(pr, FALSE, "locked")]
                /\ last' = [op |-> "vote", ok |-> FALSE, err |-> "locked"]
    /\ UNCHANGED <<songs, sessions, matches, votes, nfaults, wlock>>

\* the atomic block is left: the writes are committed, the lock is released
\* and the snapshot of every transaction still reading is out of date
Commit(p) ==
    /\ procs[p].pc = "commit"
    /\ LET db == procs[p].pending[1]
       IN  /\ songs' = db.songs
           /\ sessions' = db.sessions
           /\ matches' = db.matches
           /\ votes' = db.votes
    /\ wlock' = IF wlock = p THEN 0 ELSE wlock
    /\ procs' = [StaleAfterCommit(p) EXCEPT ![p] = Done(procs[p], TRUE, "")]
    /\ last' = [op |-> "vote", ok |-> TRUE, err |-> ""]
    /\ UNCHANGED nfaults

\* ------------------------------------------------- get_or_create_session
\* the rows with the given status, whoever owns them
SessionsOf_any_owner(user, session_key, status) ==
    {sid \in 1..Len(sessions) : sessions[sid].status = status}

\* the rows of the caller with the given status: filter(user=user, ...) for
\* a user, else filter(session_key=session_key, ...); no rows for a caller
\* with neither
SessionsOf(user, session_key, status) ==
    {sid \in 1..Len(sessions) :
        /\ sessions[sid].status = status
        /\ IF user # None THEN sessions[sid].user = user
           ELSE IF session_key # None THEN sessions[sid].session_key = session_key
           ELSE FALSE}

\* order_by('-updated_at').first()
LatestUpdated(sids) ==
    CHOOSE sid \in sids : \A o \in sids : sessions[o].updated_at <= sessions[sid].updated_at

\* .first() of an unordered queryset: the smallest primary key
FirstByPk(sids) == CHOOSE sid \in sids : \A o \in sids : sid <= o

\* the lookup that tries the ACTIVE sessions before the COMPLETED ones
ExistingSession_active_first(user, session_key) ==
    IF SessionsOf(user, session_key, "ACTIVE") # {}
    THEN FirstByPk(SessionsOf(user, session_key, "ACTIVE"))
    ELSE IF SessionsOf(user, session_key, "COMPLETED") # {}
    THEN LatestUpdated(SessionsOf(user, session_key, "COMPLETED"))
    ELSE 0

\* lines 473-507: existing_session, 0 for None
ExistingSession(user, session_key) ==
    IF SessionsOf(user, session_key, "COMPLETED") # {}
    THEN LatestUpdated(SessionsOf(user, session_key, "COMPLETED"))
    ELSE IF SessionsOf(user, session_key, "ACTIVE") # {}
    THEN FirstByPk(SessionsOf(user, session_key, "ACTIVE"))
    ELSE 0

\* what the call returns: (session, is_existing)
GotSession(sid, is_existing, user, session_key) ==
    [op |-> "get_or_create", ok |-> sid # 0, err |-> "",
     sid |-> sid, is_existing |-> is_existing,
     user |-> user, session_key |-> session_key]

\* VotingSessionService.get_or_create_session(user, session_key)
get_or_create_session(user, session_key) ==
    LET existing_session == ExistingSession(user, session_key)
    IN  IF existing_session # 0
        THEN /\ last' = GotSession(existing_session, TRUE, user, session_key)
             /\ UNCHANGED <<songs, sessions, matches, votes, nfaults, procs, wlock>>
        ELSE IF NewBrackets = {}
        THEN /\ last' = GotSession(0, FALSE, user, session_key)
             /\ UNCHANGED <<songs, sessions, matches, votes, nfaults, procs, wlock>>
        ELSE /\ Len(sessions) < MaxSessions
             /\ \E bracket_data \in NewBrackets :
                   CreateRow(bracket_data, user, session_key)
             /\ last' = GotSession(Len(sessions) + 1, FALSE, user, session_key)

GetOrCreate == \E c \in Identities : get_or_create_session(c.user, c.session_key)

CreateSession == \E c \in Identities : create_voting_session(c.user, c.session_key)

\* VotingSessionService.get_current_match(session) returns None; raised
\* tells that a query of it raised (lines 193-195, 228-230)
NoCurrentMatch(s, raised) ==
    \/ s.status # "ACTIVE"
    \/ get_current_match_data(s) = <<>>
    \/ GetId(CurrentSlot(s).song1) = None
    \/ GetId(CurrentSlot(s).song2) = None
    \/ raised

\* the vote view of a caller without `new` or `continue` in the URL: the
\* session is looked up or created, a COMPLETED one is shown, one without
\* a current match is marked ABANDONED and saved
vote_view(user, session_key, raised) ==
    LET existing_session == ExistingSession(user, session_key)
        Shown(err) == [op |-> "vote_view", ok |-> err = "", err |-> err]
    IN  IF existing_session # 0
        THEN LET s == sessions[existing_session]
             IN  IF s.status # "COMPLETED" /\ NoCurrentMatch(s, raised)
                 THEN /\ wlock = 0
                      /\ sessions' = SaveSession(sessions, existing_session,
                                                 [s EXCEPT !.status = "ABANDONED"])
                      /\ procs' = StaleAfterCommit(0)
                      /\ last' = Shown("abandoned")
                      /\ UNCHANGED <<songs, matches, votes, wlock>>
                 ELSE /\ last' = Shown("")
                      /\ UNCHANGED <<songs, sessions, matches, votes, procs, wlock>>
        ELSE IF NewBrackets = {}
        THEN /\ last' = Shown("no_session")
             /\ UNCHANGED <<songs, sessions, matches, votes, procs, wlock>>
        ELSE /\ Len(sessions) < MaxSessions
             /\ wlock = 0
             /\ \E bracket_data \in NewBrackets :
                   LET s == NewSession(bracket_data, user, session_key,
                                       Len(sessions) + 1)
                   IN  IF NoCurrentMatch(s, raised)
                       THEN /\ sessions' = Append(sessions,
                                               [s EXCEPT !.status = "ABANDONED"])
                            /\ last' = Shown("abandoned")
                       ELSE /\ sessions' = Append(sessions, s)
                            /\ last' = Shown("")
             /\ procs' = StaleAfterCommit(0)
             /\ UNCHANGED <<songs, matches, votes, wlock>>

VoteView ==
    /\ \E c \in Identities : vote_view(c.user, c.session_key, FALSE)
    /\ UNCHANGED nfaults

VoteViewFault ==
    /\ nfaults < MaxFaults
    /\ \E c \in Identities : vote_view(c.user, c.session_key, TRUE)
    /\ nfaults' = nfaults + 1

\* --------------------------------------------- the lifecycle preferences
\* VotingSession.objects.filter(<caller>, status='ACTIVE')
\*     .update(status='ABANDONED'): update() writes the status column of the
\* rows, updated_at (auto_now) is set by save() only
AbandonActive(user, session_key) ==
    [sid \in DOMAIN sessions |->
        IF sid \in SessionsOf(user, session_key, "ACTIVE")
        THEN [sessions[sid] EXCEPT !.status = "ABANDONED"]
        ELSE sessions[sid]]

\* what a call with a preference returns: (session, is_existing)
GotWith(preference, sid, is_existing, user, session_key) ==
    [GotSession(sid, is_existing, user, session_key) EXCEPT !.op = preference]

\* get_or_create_session(user, session_key, preference='create_new'): the
\* caller's ACTIVE sessions are marked ABANDONED, then a fresh session is
\* built and persisted; raised tells that a storage call of
\* create_voting_session raised, which makes it return None (lines 81-83)
create_new(user, session_key, raised) ==
    /\ wlock = 0
    /\ procs' = StaleAfterCommit(0)
    /\ IF NewBrackets = {} \/ raised
       THEN /\ sessions' = AbandonActive(user, session_key)
            /\ last' = GotWith("create_new", 0, FALSE, user, session_key)
       ELSE /\ Len(sessions) < LifeSessions
            /\ \E bracket_data \in NewBrackets :
                  sessions' = Append(AbandonActive(user, session_key),
                                     NewSession(bracket_data, user, session_key,
                                                Len(sessions) + 1))
            /\ last' = GotWith("create_new", Len(sessions) + 1, FALSE,
                               user, session_key)
    /\ UNCHANGED <<songs, matches, votes, wlock>>

\* get_or_create_session(user, session_key, preference='active_only'): the
\* caller's ACTIVE session (the first of the query, as in lines 485-488) and
\* True, else (None, False); nothing is created or written
active_only(user, session_key) ==
    LET active == SessionsOf(user, session_key, "ACTIVE")
    IN  /\ last' = IF active # {}
                   THEN GotWith("active_only", FirstByPk(active), TRUE,
                                user, session_key)
                   ELSE GotWith("active_only", 0, FALSE, user, session_key)
        /\ UNCHANGED <<songs, sessions, matches, votes, nfaults, procs, wlock>>

ActiveOnly == \E c \in Identities : active_only(c.user, c.session_key)

CreateNew ==
    /\ \E c \in Identities : create_new(c.user, c.session_key, FALSE)
    /\ UNCHANGED nfaults

CreateNewFault ==
    /\ nfaults < MaxFaults
    /\ \E c \in Identities : create_new(c.user, c.session_key, TRUE)
    /\ nfaults' = nfaults + 1

\* ---------------------------------------------------------------- progress
\* 'All', the value of matches_completed and matches_total of a COMPLETED
\* session (a string, no count)
All == 0 - 1

\* the number of matches in the rounds lo..hi that are keys of bracket b
RECURSIVE MatchesIn(_, _, _)
MatchesIn(b, lo, hi) ==
    IF lo > hi THEN 0
    ELSE (IF lo \in 1..Len(b) THEN Len(b[lo]) ELSE 0) + MatchesIn(b, lo + 1, hi)

\* round(completed / total * 100, 1), in tenths of a percent; a tie goes
\* to the even tenth
Percentage(completed, total) ==
    LET q == (completed * 1000) \div total
        rest == 2 * ((completed * 1000) % total)
    IN  IF rest > total \/ (rest = total /\ q % 2 = 1) THEN q + 1 ELSE q

\* VotingSession.progress_data, computed: the rounds after the current one
\* are counted up to round 7 (range(self.current_round + 1, 8))
progress_data(s) ==
    IF s.status = "COMPLETED"
    THEN [percentage |-> 1000, matches_completed |-> All, matches_total |-> All]
    ELSE LET b == s.bracket_data
             future == MatchesIn(b, s.current_round + 1, 7)
             past == MatchesIn(b, 1, s.current_round - 1)
             in_round == s.current_round \in 1..Len(b)
             total_matches == future + past
                              + (IF in_round THEN Len(b[s.current_round]) ELSE 0)
             completed_matches == past + (IF in_round THEN s.current_match - 1 ELSE 0)
         IN  IF total_matches = 0
             THEN [percentage |-> 0, matches_completed |-> 0, matches_total |-> 0]
             ELSE [percentage |-> Percentage(completed_matches, total_matches),
                   matches_completed |-> completed_matches,
                   matches_total |-> total_matches]

\* @cached_property: the value is computed on the first access of a
\* session object and kept in the object; cache is <<>> before that
CachedProgress(s, cache) == IF cache # <<>> THEN cache[1] ELSE progress_data(s)

\* a session row is loaded into a new object and its progress is read
\* (VotingSessionService.calculate_progress(session), lines 430-438)
ReadProgress ==
    /\ \E sid \in 1..Len(sessions) :
          last' = [op |-> "progress", ok |-> TRUE, err |-> "", sid |-> sid,
                   session |-> sessions[sid],
                   cache |-> <<CachedProgress(sessions[sid], <<>>)>>,
                   readings |-> <<CachedProgress(sessions[sid], <<>>)>>]
    /\ UNCHANGED <<songs, sessions, matches, votes, nfaults, procs, wlock>>

\* cast_vote is called with the object whose progress was read: the object
\* is changed in place and saved
VoteObject ==
    /\ last.op = "progress"
    /\ \E chosen \in RequestIds :
          LET r == cast_vote(Db, last.sid, last.session, chosen, NoFault)
          IN  /\ songs' = r.db.songs
              /\ sessions' = r.db.sessions
              /\ matches' = r.db.matches
              /\ votes' = r.db.votes
              /\ last' = [last EXCEPT !.op = "object_vote", !.ok = r.ok,
                                      !.err = r.err,
                                      !.session = IF r.ok
                                                  THEN r.db.sessions[last.sid]
                                                  ELSE @]
    /\ UNCHANGED <<nfaults, procs, wlock>>

\* the progress of the same object is read again
ReadAgain ==
    /\ last.op = "object_vote"
    /\ last' = [last EXCEPT !.op = "reread",
                            !.readings = Append(@, CachedProgress(last.session,
                                                                  last.cache))]
    /\ UNCHANGED <<songs, sessions, matches, votes, nfaults, procs, wlock>>

\* the bracket of a list of n songs
BracketOf(n) == generate_bracket_structure([i \in 1..n |-> i])

\* ------------------------------------------------------------ round names
\* a label: <<text>> for a fixed text, <<"Round", n>> for f"Round {n}"
RoundNames == <<<<"Round of 64">>, <<"Round of 32">>, <<"Round of 16">>,
                <<"Quarter-Finals">>, <<"Semi-Finals">>, <<"Finals">>,
                <<"Grand Finals">>>>

\* the lookup table that is filled for 7 rounds and more
round_name_lookup_ge(s) ==
    IF Len(s.bracket_data) >= 7 THEN RoundNames ELSE <<>>

\* VotingSession.round_name_lookup: the table as a sequence, <<>> for {}
round_name_lookup(s) ==
    IF Len(s.bracket_data) = 7 THEN RoundNames ELSE <<>>

\* VotingSession.get_round_name
get_round_name(s) ==
    IF s.current_round \in DOMAIN round_name_lookup(s)
    THEN round_name_lookup(s)[s.current_round]
    ELSE <<"Round", s.current_round>>

\* get_round_name of a session object with the bracket of 2^d songs and
\* the given current round
RoundName ==
    /\ last.op = "init"
    /\ \E d \in 0..MaxDepth, current_round \in 1..(MaxDepth + 1) :
          LET s == [NewSession(BracketOf(2^d), 1, None, 1)
                       EXCEPT !.current_round = current_round]
          IN  last' = [op |-> "round_name", ok |-> TRUE, err |-> "",
                       rounds |-> Len(s.bracket_data),
                       current_round |-> current_round,
                       name |-> get_round_name(s)]
    /\ UNCHANGED <<songs, sessions, matches, votes, nfaults, procs, wlock>>

\* a call of the service with both a user and a session key, and one with
\* neither (create_voting_session() of the tests)
Both1 == [user |-> 1, session_key |-> 1]

Nobody == [user |-> None, session_key |-> None]

Callers == Identities \cup {Both1, Nobody}

GetOrCreateAny == \E c \in Callers : get_or_create_session(c.user, c.session_key)

CreateSessionAny == \E c \in Callers : create_voting_session(c.user, c.session_key)

\* ------------------------------------------ the cast_vote request handler
\* callers that own no session: another user and another browser session
User2 == [user |-> 2, session_key |-> None]

Anon2 == [user |-> None, session_key |-> 2]

\* the callers of the request handlers (an anonymous caller without a
\* session key is given one by request.session.create())
Voters == Identities \cup {User2, Anon2}

\* settings.DEBUG: True in development, False in production and testing
DebugSettings == {TRUE, FALSE}

\* "Verify session ownership" of the handler: "ok", the error of the
\* response, or "rekey" when the session is given the caller's session key
Ownership(s, c, debug) ==
    IF c.user # None
    THEN IF s.user # c.user THEN "not_authorized" ELSE "ok"
    ELSE IF s.session_key # c.session_key
    THEN IF debug THEN "session_expired" ELSE "rekey"
    ELSE "ok"

\* the session object the service is called with
Rekeyed(s, c, debug) ==
    IF Ownership(s, c, debug) = "rekey"
    THEN [s EXCEPT !.session_key = c.session_key]
    ELSE s

\* the database after line 378 (session.save()) when it is reached
AfterRekey(db, sid, s, c, debug) ==
    IF Ownership(s, c, debug) = "rekey"
    THEN [db EXCEPT !.sessions = SaveSession(db.sessions, sid, Rekeyed(s, c, debug))]
    ELSE db

\* what a request leaves in `last`
Handled(c, debug, sid, ok, err) ==
    [op |-> "cast_vote_view", ok |-> ok, err |-> err, sid |-> sid,
     user |-> c.user, session_key |-> c.session_key, debug |-> debug]

\* the handler, one request at a time: the session row is loaded, the
\* ownership is verified and the service is called
cast_vote_view(c, debug, sid, chosen) ==
    LET s == sessions[sid]
        owner == Ownership(s, c, debug)
    IN  IF owner \notin {"ok", "rekey"}
        THEN /\ last' = Handled(c, debug, sid, FALSE, owner)
             /\ UNCHANGED <<songs, sessions, matches, votes>>
        ELSE LET r == cast_vote(AfterRekey(Db, sid, s, c, debug), sid,
                                Rekeyed(s, c, debug), chosen, NoFault)
             IN  /\ songs' = r.db.songs
                 /\ sessions' = r.db.sessions
                 /\ matches' = r.db.matches
                 /\ votes' = r.db.votes
                 /\ last' = Handled(c, debug, sid, r.ok, r.err)

CastVoteView ==
    /\ \E c \in Voters, debug \in DebugSettings, sid \in 1..Len(sessions),
          chosen \in RequestIds : cast_vote_view(c, debug, sid, chosen)
    /\ UNCHANGED <<nfaults, procs, wlock>>

\* ----------------------------------------- the handlers, request by request
\* the handler loads the session row and verifies the ownership; a refused
\* request ends here, a session that is to be given the caller's key is
\* saved next, else the service is called as in Load
ViewLoad(p) ==
    /\ procs[p].pc = "idle"
    /\ \E c \in Voters, debug \in DebugSettings, sid \in 1..Len(sessions),
          chosen \in RequestIds :
         LET s == sessions[sid]
             owner == Ownership(s, c, debug)
             pr == [procs[p] EXCEPT !.sid = sid, !.chosen = chosen,
                                    !.session = Rekeyed(s, c, debug)]
         IN  IF owner \notin {"ok", "rekey"}
             THEN /\ procs' = [procs EXCEPT ![p] = Done(pr, FALSE, owner)]
                  /\ last' = [op |-> "vote", ok |-> FALSE, err |-> owner]
             ELSE IF owner = "rekey"
             THEN /\ procs' = [procs EXCEPT ![p] = [pr EXCEPT !.pc = "rekey"]]
                  /\ UNCHANGED last
             ELSE IF s.status # "ACTIVE"
             THEN /\ procs' = [procs EXCEPT ![p] = Done(pr, FALSE, "inactive")]
                  /\ last' = [op |-> "vote", ok |-> FALSE, err |-> "inactive"]
             ELSE /\ procs' = [procs EXCEPT ![p] = [pr EXCEPT !.pc = "txn"]]
                  /\ UNCHANGED last
    /\ UNCHANGED <<songs, sessions, matches, votes, nfaults, wlock>>

\* lines 377-378: session.save() of the object loaded in ViewLoad writes
\* every field of the row; then the service is called with that object
RekeySave(p) ==
    /\ procs[p].pc = "rekey"
    /\ wlock = 0
    /\ LET pr == procs[p]
       IN  /\ sessions' = SaveSession(sessions, pr.sid, pr.session)
           /\ IF pr.session.status # "ACTIVE"
              THEN /\ procs' = [StaleAfterCommit(0) EXCEPT
                                   ![p] = Done(pr, FALSE, "inactive")]
                   /\ last' = [op |-> "vote", ok |-> FALSE, err |-> "inactive"]
              ELSE /\ procs' = [StaleAfterCommit(0) EXCEPT
                                   ![p] = [pr EXCEPT !.pc = "txn"]]
                   /\ UNCHANGED last
    /\ UNCHANGED <<songs, matches, votes, nfaults, wlock>>

\* the vote view looks the session up and asks for the current match; when
\* there is none for a session that is not COMPLETED, the object is marked
\* ABANDONED and saved next; every other path is that of vote_view
VoteViewLoad(p) ==
    /\ procs[p].pc = "idle"
    /\ \E c \in Identities, raised \in BOOLEAN :
         LET existing_session == ExistingSession(c.user, c.session_key)
         IN  /\ raised => nfaults < MaxFaults
             /\ nfaults' = IF raised THEN nfaults + 1 ELSE nfaults
             /\ IF /\ existing_session # 0
                   /\ sessions[existing_session].status # "COMPLETED"
                   /\ NoCurrentMatch(sessions[existing_session], raised)
                THEN /\ procs' = [procs EXCEPT ![p] =
                           [@ EXCEPT !.pc = "abandon",
                                     !.sid = existing_session,
                                     !.session = [sessions[existing_session]
                                                     EXCEPT !.status = "ABANDONED"]]]
                     /\ UNCHANGED <<songs, sessions, matches, votes, last, wlock>>
                ELSE vote_view(c.user, c.session_key, raised)

\* lines 272-273: session.save() of the object loaded in VoteViewLoad
AbandonSave(p) ==
    /\ procs[p].pc = "abandon"
    /\ wlock = 0
    /\ sessions' = SaveSession(sessions, procs[p].sid, procs[p].session)
    /\ procs' = [StaleAfterCommit(0) EXCEPT
                    ![p] = Done(procs[p], FALSE, "abandoned")]
    /\ last' = [op |-> "vote_view", ok |-> FALSE, err |-> "abandoned"]
    /\ UNCHANGED <<songs, matches, votes, nfaults, wlock>>

\* ------------------------------ get_or_create_session, request by request
\* the queries of lines 473-507 are made (outside any transaction): an
\* existing session is returned, else create_voting_session is called next;
\* the object kept by the request holds the caller
SessionLookup(p) ==
    /\ procs[p].pc = "idle"
    /\ \E c \in Identities :
         LET existing_session == ExistingSession(c.user, c.session_key)
             pr == [procs[p] EXCEPT !.sid = existing_session,
                                    !.session = [NoSession EXCEPT
                                                    !.user = c.user,
                                                    !.session_key = c.session_key]]
         IN  IF existing_session # 0
             THEN /\ procs' = [procs EXCEPT ![p] = Done(pr, TRUE, "")]
                  /\ last' = GotSession(existing_session, TRUE, c.user, c.session_key)
             ELSE /\ procs' = [procs EXCEPT ![p] = [pr EXCEPT !.pc = "create"]]
                  /\ UNCHANGED last
    /\ UNCHANGED <<songs, sessions, matches, votes, nfaults, wlock>>

\* lines 511-518: create_voting_session(user, session_key) for the caller
\* of the request
SessionCreate(p) ==
    /\ procs[p].pc = "create"
    /\ LET pr == procs[p]
           user == pr.session.user
           session_key == pr.session.session_key
       IN  IF NewBrackets = {}
           THEN /\ procs' = [procs EXCEPT ![p] = Done(pr, FALSE, CreateError)]
                /\ last' = GotSession(0, FALSE, user, session_key)
                /\ UNCHANGED sessions
           ELSE /\ wlock = 0
                /\ Len(sessions) < LifeSessions
                /\ \E bracket_data \in NewBrackets :
                      sessions' = Append(sessions,
                                         NewSession(bracket_data, user, session_key,
                                                    Len(sessions) + 1))
                /\ procs' = [StaleAfterCommit(0) EXCEPT
                                ![p] = Done([pr EXCEPT !.sid = Len(sessions) + 1],
                                            TRUE, "")]
                /\ last' = GotSession(Len(sessions) + 1, FALSE, user, session_key)
    /\ UNCHANGED <<songs, matches, votes, nfaults, wlock>>

\* start_game, POST "start new session": inside one transaction the ACTIVE
\* sessions of the caller are marked ABANDONED and create_voting_session is
\* called
start_game(user, session_key) ==
    /\ wlock = 0
    /\ procs' = StaleAfterCommit(0)
    /\ IF NewBrackets = {}
       THEN /\ sessions' = AbandonActive(user, session_key)
            /\ last' = [GotSession(0, FALSE, user, session_key)
                           EXCEPT !.op = "start_game"]
       ELSE /\ Len(sessions) < LifeSessions
            /\ \E bracket_data \in NewBrackets :
                  sessions' = Append(AbandonActive(user, session_key),
                                     NewSession(bracket_data, user, session_key,
                                                Len(sessions) + 1))
            /\ last' = [GotSession(Len(sessions) + 1, FALSE, user, session_key)
                           EXCEPT !.op = "start_game"]
    /\ UNCHANGED <<songs, matches, votes, nfaults, wlock>>

StartGame == \E c \in Identities : start_game(c.user, c.session_key)

\* ------------------------------------------------------------------ init
Init ==
    /\ \E n \in 0..MaxPool : songs = [i \in 1..n |-> NewSong]
    /\ sessions = <<>>
    /\ matches = {}
    /\ votes = EmptyBag
    /\ last = [op |-> "init", ok |-> TRUE, err |-> ""]
    /\ nfaults = 0
    /\ procs = [p \in Procs |-> IdleProc]
    /\ wlock = 0

Next ==
    \/ StartSession
    \/ CastVote

Spec == Init /\ [][Next]_vars

NextFault ==
    \/ StartSession
    \/ CastVote
    \/ CastVoteFault

InitFault == Init /\ Cardinality(DOMAIN songs) <= FaultPool

SpecFault == InitFault /\ [][NextFault]_vars

InitConc == Init /\ Cardinality(DOMAIN songs) \in 1..ConcPool

NextConc ==
    \/ StartSession
    \/ \E p \in Procs : Load(p)
    \/ \E p \in Procs : TxnRead(p)
    \/ \E p \in Procs : InsertMatch(p)
    \/ \E p \in Procs : InsertLocked(p)
    \/ \E p \in Procs : Commit(p)

SpecConc == InitConc /\ [][NextConc]_vars

\* session creation on catalogs around the target size
InitCreate ==
    /\ \E n \in (0..MaxPool) \cup ((TargetSize - 1)..BigPool) :
          songs = [i \in 1..n |-> NewSong]
    /\ sessions = <<>>
    /\ matches = {}
    /\ votes = EmptyBag
    /\ last = [op |-> "init", ok |-> TRUE, err |-> ""]
    /\ nfaults = 0
    /\ procs = [p \in Procs |-> IdleProc]
    /\ wlock = 0

FirstSession == sessions = <<>> /\ StartSession

NextCreate ==
    \/ FirstSession

SpecCreate == InitCreate /\ [][NextCreate]_vars

\* generate_bracket_structure applied to a list of n songs
InitBracket == Init /\ songs = <<>>

GenerateBracket ==
    /\ last.op = "init"
    /\ \E n \in 0..MaxListLen :
          last' = [op |-> "bracket", ok |-> BracketOf(n) # <<>>, err |-> "",
                   n |-> n, rounds |-> Len(BracketOf(n))]
    /\ UNCHANGED <<songs, sessions, matches, votes, nfaults, procs, wlock>>

NextBracket ==
    \/ GenerateBracket

SpecBracket == InitBracket /\ [][NextBracket]_vars

\* the session operations of the callers, one request at a time
NextSess ==
    \/ GetOrCreate
    \/ CreateSession
    \/ VoteView
    \/ VoteViewFault
    \/ CastVote

InitSess == Init /\ Cardinality(DOMAIN songs) <= SessPool

SpecSess == InitSess /\ [][NextSess]_vars

\* starting sessions anew, next to the other session operations
InitLife == Init /\ Cardinality(DOMAIN songs) <= LifePool

NextLife ==
    \/ CreateNew
    \/ ActiveOnly
    \/ CreateNewFault
    \/ CreateSession
    \/ GetOrCreate
    \/ CastVote

SpecLife == InitLife /\ [][NextLife]_vars

\* the service called with any combination of user and session key
NextIdent ==
    \/ GetOrCreateAny
    \/ CreateSessionAny
    \/ CastVote

SpecIdent == InitSess /\ [][NextIdent]_vars

\* voting with the progress of the sessions read before and after a vote
NextProgress ==
    \/ StartSession
    \/ CastVote
    \/ ReadProgress
    \/ VoteObject
    \/ ReadAgain

SpecProgress == InitFault /\ [][NextProgress]_vars

\* the round names of brackets of every depth
NextRound ==
    \/ RoundName

SpecRound == InitBracket /\ [][NextRound]_vars

\* concurrent cast_vote requests while sessions are started anew
NextConcLife ==
    \/ CreateNew
    \/ \E p \in Procs : Load(p)
    \/ \E p \in Procs : TxnRead(p)
    \/ \E p \in Procs : InsertMatch(p)
    \/ \E p \in Procs : InsertLocked(p)
    \/ \E p \in Procs : Commit(p)

SpecConcLife == InitLife /\ [][NextConcLife]_vars

\* the request handler with callers that own the session and callers that
\* do not, one request at a time
NextView ==
    \/ CreateSession
    \/ CastVoteView

SpecView == InitLife /\ [][NextView]_vars

\* concurrent requests of the handlers: votes, and the saves of a session
\* object loaded earlier
NextConcView ==
    \/ StartSession
    \/ \E p \in Procs : ViewLoad(p)
    \/ \E p \in Procs : RekeySave(p)
    \/ \E p \in Procs : VoteViewLoad(p)
    \/ \E p \in Procs : AbandonSave(p)
    \/ \E p \in Procs : TxnRead(p)
    \/ \E p \in Procs : InsertMatch(p)
    \/ \E p \in Procs : InsertLocked(p)
    \/ \E p \in Procs : Commit(p)

SpecConcView == InitConc /\ [][NextConcView]_vars

\* concurrent get_or_create_session calls and start-new requests
NextConcSess ==
    \/ StartGame
    \/ \E p \in Procs : SessionLookup(p)
    \/ \E p \in Procs : SessionCreate(p)

SpecConcSess == InitLife /\ [][NextConcSess]_vars

\* ================================================================ claims
SessionIds == 1..Len(sessions)

\* the slot at the cursor of a session row
CursorSlot(s) == CurrentSlot(s)

\* the number of slots of a bracket
RECURSIVE SlotCount(_)
SlotCount(b) == IF b = <<>> THEN 0 ELSE Len(b[1]) + SlotCount(Tail(b))

MatchesOf(sid) == {m \in matches : m.session = sid}

\* the outcome of cast_vote(session sid, chosen) in the current state
VoteOutcome(sid, chosen) == cast_vote(Db, sid, sessions[sid], chosen, NoFault)

\* ---------------------------------------------------------------- C1
\* C1: a session created from any non-empty pool can always be voted on
\* until it is COMPLETED: while it is ACTIVE some vote for an item of the
\* current match succeeds, and a COMPLETED session has had exactly as many
\* votes as its bracket has slots.
C1_VotableUntilCompleted ==
    \A sid \in SessionIds :
        /\ sessions[sid].status = "ACTIVE" =>
              \E chosen \in DOMAIN songs : VoteOutcome(sid, chosen).ok
        /\ sessions[sid].status = "COMPLETED" =>
              Cardinality(MatchesOf(sid)) = SlotCount(sessions[sid].bracket_data)

\* ---------------------------------------------------------------- C2
\* C2: after any sequence of cast_vote calls, successful or failed, every
\* Song has total_wins + total_losses = total_picks, also when a slot pairs
\* an item with its own duplicate.
C2_WinsPlusLossesIsPicks ==
    \A id \in DOMAIN songs :
        songs[id].total_wins + songs[id].total_losses = songs[id].total_picks

\* a vote was cast in a slot whose two sides are the same item
C2_Witness ==
    \E m \in matches :
        /\ m.song1 = m.song2
        /\ songs[m.song1].total_picks >= 2
        /\ songs[m.song1].total_losses >= 1

\* ---------------------------------------------------------------- C3
\* C3: the cursor of every ACTIVE session names an existing round, a match
\* number between 1 and the number of slots of that round, and a slot that
\* is not completed.
C3_ActiveCursorValid ==
    \A sid \in SessionIds :
        LET s == sessions[sid]
        IN  s.status = "ACTIVE" =>
              /\ s.current_round \in 1..Len(s.bracket_data)
              /\ s.current_match \in 1..Len(s.bracket_data[s.current_round])
              /\ ~CursorSlot(s).completed

\* an ACTIVE session whose cursor has moved into a later round
C3_Witness ==
    \E sid \in SessionIds :
        /\ sessions[sid].status = "ACTIVE"
        /\ sessions[sid].current_round >= 2
        /\ MatchesOf(sid) # {}

\* ---------------------------------------------------------------- C4
ReplayOutcome(sid, chosen) == VoteOutcome(sid, chosen)

\* C4: replaying a vote that succeeded (same session, same chosen item) is
\* rejected and changes no counter, record or session field.
C4_ReplayRejected ==
    [][\A sid \in SessionIds, chosen \in RequestIds :
         (VoteOutcome(sid, chosen).ok /\ Vote(sid, chosen, NoFault))
            => /\ ~ReplayOutcome(sid, chosen).ok'
               /\ ReplayOutcome(sid, chosen).db' = Db']_vars

\* ---------------------------------------------------------------- C8
RoundDone(round) == \A i \in 1..Len(round) : round[i].completed

\* C8: once every slot of round r is completed and round r+1 exists, the
\* winner of slot 2k-1 is song1 and the winner of slot 2k is song2 of slot k
\* of round r+1, no winner of round r is dropped and both sides of every
\* slot of round r+1 are filled.
C8_WinnersPropagated ==
    \A sid \in SessionIds :
        LET b == sessions[sid].bracket_data
        IN  \A r \in 1..(Len(b) - 1) :
              RoundDone(b[r]) =>
                /\ \A i \in 1..Len(b[r]) :
                     LET k == (i + 1) \div 2
                     IN  /\ k \in 1..Len(b[r + 1])
                         /\ IF i % 2 = 1
                            THEN b[r + 1][k].song1 = b[r][i].winner
                            ELSE b[r + 1][k].song2 = b[r][i].winner
                /\ \A k \in 1..Len(b[r + 1]) :
                     b[r + 1][k].song1 > 0 /\ b[r + 1][k].song2 > 0

\* ---------------------------------------------------------------- C9
\* the vote on session sid resolved the single slot of its last round
ResolvesFinal(sid) ==
    LET s == sessions[sid]
        R == Len(s.bracket_data)
    IN  /\ s.status = "ACTIVE"
        /\ s.current_round = R
        /\ Len(s.bracket_data[R]) = 1
        /\ s.current_match = 1
        /\ ~s.bracket_data[R][1].completed
        /\ sessions'[sid].bracket_data[R][1].completed
        /\ Cardinality(MatchesOf(sid)') = Cardinality(MatchesOf(sid)) + 1

\* C9: a session becomes COMPLETED exactly in the step in which a
\* successful vote resolves the single slot of its last round; in that step
\* tournament_wins of the chosen item grows by 1 and no other changes, and
\* no other step changes any tournament_wins.
C9_CompletionLaw ==
    [][/\ \A sid \in SessionIds :
             (sessions[sid].status # "COMPLETED" /\ sessions'[sid].status = "COMPLETED")
                <=> ResolvesFinal(sid)
       /\ \A id \in DOMAIN songs :
             songs'[id].tournament_wins = songs[id].tournament_wins +
                Cardinality({sid \in SessionIds :
                    /\ ResolvesFinal(sid)
                    /\ sessions'[sid].bracket_data[Len(sessions[sid].bracket_data)][1].winner = id
                    /\ \E m \in MatchesOf(sid)' \ MatchesOf(sid) : m.winner = id})]_vars

\* a COMPLETED session whose final winner has a tournament win, next to an
\* item of the final that has none
C9_Witness ==
    \E sid \in SessionIds :
        LET s == sessions[sid]
            final == s.bracket_data[Len(s.bracket_data)][1]
        IN  /\ s.status = "COMPLETED"
            /\ songs[final.winner].tournament_wins = 1
            /\ final.song1 # final.winner
            /\ songs[final.song1].tournament_wins = 0

\* --------------------------------------------------------------- C10
CeilHalf(x) == (x + 1) \div 2

\* C10: round 1 of a bracket has n/2 slots for the n selected items, every
\* later round has ceil(s/2) slots for the s slots of the round before it,
\* and the last round has exactly 1 slot.
C10_RoundSizeLaw ==
    \A sid \in SessionIds :
        LET b == sessions[sid].bracket_data
        IN  /\ \A r \in 2..Len(b) : Len(b[r]) = CeilHalf(Len(b[r - 1]))
            /\ Len(b[Len(b)]) = 1
            /\ \A r \in 1..(Len(b) - 1) : Len(b[r]) > 1

\* ---------------------------------------------------------------- C5
DoneProcs == {p \in Procs : procs[p].pc = "done"}

OkProcs == {p \in DoneProcs : procs[p].ok}

\* requests p and q loaded the same session with the same cursor
SameCursor(p, q) ==
    /\ procs[p].sid = procs[q].sid
    /\ procs[p].session.current_round = procs[q].session.current_round
    /\ procs[p].session.current_match = procs[q].session.current_match

\* request p votes for one of the two items of the slot it loaded
ValidChoice(p) ==
    procs[p].chosen \in {CurrentSlot(procs[p].session).song1,
                         CurrentSlot(procs[p].session).song2}

\* the cursor of row s is one slot after the cursor of the loaded object s0
OneSlotLater(s0, s) ==
    IF s0.current_match < Len(s0.bracket_data[s0.current_round])
    THEN /\ s.current_round = s0.current_round
         /\ s.current_match = s0.current_match + 1
         /\ s.status = "ACTIVE"
    ELSE IF s0.current_round < Len(s0.bracket_data)
    THEN /\ s.current_round = s0.current_round + 1
         /\ s.current_match = 1
         /\ s.status = "ACTIVE"
    ELSE /\ s.current_round = s0.current_round
         /\ s.current_match = s0.current_match
         /\ s.status = "COMPLETED"

\* the counters of item id as the votes of the successful requests give them
ExpectedWins(id) == Cardinality({p \in OkProcs : procs[p].chosen = id})

ExpectedLosses(id) ==
    Cardinality({p \in OkProcs :
        Loser(procs[p].chosen, CurrentSlot(procs[p].session).song1,
              CurrentSlot(procs[p].session).song2) = id})

ExpectedPicks(id) ==
    Cardinality({p \in OkProcs : CurrentSlot(procs[p].session).song1 = id})
    + Cardinality({p \in OkProcs : CurrentSlot(procs[p].session).song2 = id})

CountersAsExpected(id) ==
    /\ songs[id].total_wins = ExpectedWins(id)
    /\ songs[id].total_losses = ExpectedLosses(id)
    /\ songs[id].total_picks = ExpectedPicks(id)

SharedItem(p, q, id) ==
    /\ procs[p].sid # procs[q].sid
    /\ id \in {CurrentSlot(procs[p].session).song1, CurrentSlot(procs[p].session).song2}
    /\ id \in {CurrentSlot(procs[q].session).song1, CurrentSlot(procs[q].session).song2}

\* C6: when two sessions vote concurrently in matches with a common item,
\* the item's counters after both commits are those of the two votes
\* applied one after the other.
C6_NoLostUpdate ==
    \A p, q \in OkProcs : \A id \in DOMAIN songs :
        (p # q /\ SharedItem(p, q, id)) => CountersAsExpected(id)

\* both votes committed, the second after meeting the first one's lock
C6_Witness ==
    \E p, q \in OkProcs : \E id \in DOMAIN songs :
        /\ p # q
        /\ SharedItem(p, q, id)
        /\ procs[q].attempt >= 1
        /\ songs[id].total_picks = 2

\* ---------------------------------------------------------------- C7
\* C7: a cast_vote call that returns failure leaves no write behind, and a
\* call that returns success has persisted the Match and Vote records, both
\* counter updates, the slot mutation and the cursor advance.
C7_AllOrNothing ==
    [][/\ (last'.op = "vote" /\ ~last'.ok)
            => UNCHANGED <<songs, sessions, matches, votes>>
       /\ (last'.op = "vote" /\ last'.ok)
            => \E m \in matches' \ matches :
                 LET loser == Loser(m.winner, m.song1, m.song2)
                     s == sessions[m.session]
                     s2 == sessions'[m.session]
                 IN  /\ matches' = matches \cup {m}
                     /\ BagCardinality(votes') = BagCardinality(votes) + 1
                     /\ songs'[m.winner].total_wins = songs[m.winner].total_wins + 1
                     /\ songs'[loser].total_losses = songs[loser].total_losses + 1
                     /\ songs'[m.winner].total_picks > songs[m.winner].total_picks
                     /\ songs'[loser].total_picks > songs[loser].total_picks
                     /\ s2.bracket_data[m.round_number][m.match_number].completed
                     /\ s2.bracket_data[m.round_number][m.match_number].winner = m.winner
                     /\ <<s2.current_round, s2.current_match, s2.status>>
                          # <<s.current_round, s.current_match, s.status>>]_vars

\* --------------------------------------------------------------- C11
\* the session whose slot the step's vote resolved
VotedIn(sid) == MatchesOf(sid)' # MatchesOf(sid)

\* C11: every successful vote moves the cursor of its session by exactly
\* one position in bracket order: (r, m) to (r, m+1) while round r has more
\* slots, else to (r+1, 1) when round r+1 exists, else the cursor stays and
\* the status becomes COMPLETED; no other step moves a cursor.
C11_CursorAdvance ==
    [][\A sid \in SessionIds :
         LET s == sessions[sid]
             s2 == sessions'[sid]
         IN  IF last'.op = "vote" /\ last'.ok /\ VotedIn(sid)
             THEN OneSlotLater(s, s2)
             ELSE <<s2.current_round, s2.current_match, s2.status>>
                    = <<s.current_round, s.current_match, s.status>>]_vars

\* a session voted through all three cases: next slot, next round, completed
C11_Witness ==
    \E sid \in SessionIds :
        LET s == sessions[sid]
        IN  /\ s.status = "COMPLETED"
            /\ Len(s.bracket_data) = 2
            /\ Len(s.bracket_data[1]) = 2
            /\ s.current_round = 2
            /\ s.current_match = 1
            /\ Cardinality(MatchesOf(sid)) = 3

\* --------------------------------------------------------------- C12
\* the items of round 1 of bracket b, with repetitions
Round1Items(b) == [i \in 1..(2 * Len(b[1])) |->
                      IF i % 2 = 1 THEN b[1][(i + 1) \div 2].song1
                      ELSE b[1][i \div 2].song2]

\* session sid plays 4 distinct items and holds every vote cast so far
FourItemSession(sid) ==
    LET b == sessions[sid].bracket_data
    IN  /\ Len(b[1]) = 2
        /\ Cardinality({Round1Items(b)[i] : i \in 1..4}) = 4
        /\ matches = MatchesOf(sid)

\* C12: pool of 4 distinct items, round 1 = {A,B},{C,D}: after the votes
\* A over B and C over D round 2 has one undecided slot with sides A and C;
\* after the vote for A the session is COMPLETED and A has
\* tournament_wins 1, total_picks 2 and total_wins 2.
C12_ScenarioA ==
    \A sid \in SessionIds :
        FourItemSession(sid) =>
            LET s == sessions[sid]
                b == s.bracket_data
            IN  /\ Len(b) = 2 /\ Len(b[2]) = 1
                /\ (RoundDone(b[1]) /\ s.status = "ACTIVE") =>
                      /\ b[2][1].song1 = b[1][1].winner
                      /\ b[2][1].song2 = b[1][2].winner
                      /\ b[2][1].winner = None
                      /\ ~b[2][1].completed
                      /\ <<s.current_round, s.current_match>> = <<2, 1>>
                /\ s.status = "COMPLETED" =>
                      /\ b[2][1].winner \in {b[1][1].winner, b[1][2].winner}
                      /\ songs[b[2][1].winner] =
                           [total_wins |-> 2, total_losses |-> 0,
                            total_picks |-> 2, tournament_wins |-> 1]

\* the three votes of the scenario were cast: the winner of slot 2 of round 1 won the final
C12_Witness ==
    \E sid \in SessionIds :
        /\ FourItemSession(sid)
        /\ sessions[sid].status = "COMPLETED"
        /\ sessions[sid].bracket_data[2][1].winner = sessions[sid].bracket_data[1][2].winner
        /\ Cardinality(matches) = 3

\* --------------------------------------------------------------- C13
\* the bracket of one round with one slot pairing item id with itself
SelfBracket(id) ==
    <<<<[match_number |-> 1, song1 |-> id, song2 |-> id,
         winner |-> None, completed |-> FALSE]>>>>

\* C13: with a pool of exactly 1 item, creation succeeds with a bracket of
\* one round and one slot whose two sides are that item, and one vote for
\* the item completes the session and adds 1 to its tournament_wins.
C13_ScenarioB ==
    [][Cardinality(DOMAIN songs) = 1 =>
         /\ last'.op = "create" =>
               /\ last'.ok
               /\ Len(sessions') = Len(sessions) + 1
               /\ sessions'[Len(sessions')].bracket_data = SelfBracket(1)
               /\ sessions'[Len(sessions')].status = "ACTIVE"
               /\ sessions'[Len(sessions')].current_round = 1
               /\ sessions'[Len(sessions')].current_match = 1
         /\ \A sid \in SessionIds :
               (sessions[sid].status = "ACTIVE" /\ Vote(sid, 1, NoFault)) =>
                  /\ last'.ok
                  /\ sessions'[sid].status = "COMPLETED"
                  /\ sessions'[sid].bracket_data[1][1].winner = 1
                  /\ songs'[1].tournament_wins = songs[1].tournament_wins + 1]_vars

\* the single vote was cast on a session of the one-item pool
C13_Witness ==
    /\ Cardinality(DOMAIN songs) = 1
    /\ \E sid \in SessionIds :
          /\ sessions[sid].status = "COMPLETED"
          /\ Cardinality(MatchesOf(sid)) = 1
          /\ songs[1].tournament_wins >= 1

\* --------------------------------------------------------------- C14
\* the checks of cast_vote reject the call: the session is not ACTIVE, it
\* has no current match, the chosen id is not an id of the slot, or the
\* Match record of the slot exists
ValidationFails(sid, chosen) ==
    LET s == sessions[sid]
    IN  \/ s.status # "ACTIVE"
        \/ get_current_match_data(s) = <<>>
        \/ chosen \notin {GetId(CurrentSlot(s).song1), GetId(CurrentSlot(s).song2)}
        \/ ExistingMatch(matches, sid, s) # {}

\* the vote of the call is in the database it leaves
Committed(r, sid, chosen) ==
    \E m \in r.db.matches \ matches :
        /\ m.session = sid
        /\ m.winner = chosen
        /\ BagCardinality(r.db.votes) = BagCardinality(votes) + 1

\* C14: a cast_vote call makes at most 3 passes of the vote transaction;
\* only "database is locked" leads to another pass, three locked passes end
\* the call with failure, a validation failure ends it in the first pass,
\* and success is reported only for a committed vote.
C14_BoundedRetry ==
    \A sid \in SessionIds, chosen \in RequestIds, fault \in Faults \cup {NoFault} :
        LET r == cast_vote(Db, sid, sessions[sid], chosen, fault)
        IN  /\ r.attempts \in 0..MaxAttempts
            /\ r.attempts > 1 => fault.kind = "locked"
            /\ (fault.kind = "locked" /\ fault.n >= MaxAttempts) => ~r.ok
            /\ ValidationFails(sid, chosen) => (~r.ok /\ r.attempts <= 1)
            /\ r.ok => Committed(r, sid, chosen)

\* --------------------------------------------------------------- C15
\* C15: cast_vote on a session that is COMPLETED or ABANDONED fails and
\* changes no record, counter, slot, cursor or status; and once the status
\* of a session has left ACTIVE it never becomes ACTIVE again and its cursor
\* and bracket never change.
C15_InactiveFrozen ==
    [][\A sid \in SessionIds :
         sessions[sid].status # "ACTIVE" =>
            /\ \A chosen \in RequestIds :
                  LET r == cast_vote(Db, sid, sessions[sid], chosen, NoFault)
                  IN  ~r.ok /\ r.db = Db
            /\ sessions'[sid].status # "ACTIVE"
            /\ sessions'[sid].bracket_data = sessions[sid].bracket_data
            /\ sessions'[sid].current_round = sessions[sid].current_round
            /\ sessions'[sid].current_match = sessions[sid].current_match]_vars

\* a vote was refused on an ABANDONED session whose current slot is intact,
\* next to a COMPLETED session
C15_Witness ==
    /\ last.op = "vote" /\ last.err = "inactive"
    /\ \E sid \in SessionIds :
          /\ sessions[sid].status = "ABANDONED"
          /\ ~NoCurrentMatch([sessions[sid] EXCEPT !.status = "ACTIVE"], FALSE)
    /\ \E sid \in SessionIds : sessions[sid].status = "COMPLETED"

\* --------------------------------------------------------------- C16
\* C16: cast_vote with a chosen id that is not one of the two ids of the
\* slot at the cursor (an unknown id, or the id of an item elsewhere in the
\* bracket) fails and changes nothing: no Match or Vote record, no counter,
\* and the session's bracket, cursor and status are as before.
C16_InvalidChoiceRejected ==
    \A sid \in SessionIds, chosen \in RequestIds, fault \in Faults \cup {NoFault} :
        LET s == sessions[sid]
            r == cast_vote(Db, sid, s, chosen, fault)
        IN  chosen \notin {GetId(CurrentSlot(s).song1), GetId(CurrentSlot(s).song2)}
               => (~r.ok /\ r.db = Db)

\* a vote for an item of another slot of the bracket was refused
C16_Witness ==
    /\ last.op = "vote" /\ ~last.ok /\ last.err = "invalid_choice"
    /\ \E sid \in SessionIds :
          /\ sessions[sid].status = "ACTIVE"
          /\ MatchesOf(sid) # {}
          /\ \E id \in DOMAIN songs :
                /\ id \notin {CurrentSlot(sessions[sid]).song1, CurrentSlot(sessions[sid]).song2}
                /\ ~VoteOutcome(sid, id).ok

\* --------------------------------------------------------------- C17
\* the rows created by the step
NewRows == (1..Len(sessions')) \ SessionIds

\* C17: with an empty pool create_voting_session and get_or_create_session
\* fail (no session, is_existing false) and no session row is persisted; a
\* session row is created only with a non-empty bracket, the cursor at
\* (1,1) and status ACTIVE (the vote view may mark the row it created
\* ABANDONED at once).
C17_NoSessionFromEmptyPool ==
    [][/\ Cardinality(DOMAIN songs) = 0 =>
            /\ sessions' = <<>>
            /\ last'.op \in {"create", "get_or_create"} => ~last'.ok
            /\ last'.op = "get_or_create" => (last'.sid = 0 /\ ~last'.is_existing)
       /\ \A sid \in NewRows :
            LET s == sessions'[sid]
            IN  /\ s.bracket_data # <<>>
                /\ \A r \in 1..Len(s.bracket_data) : s.bracket_data[r] # <<>>
                /\ s.current_round = 1
                /\ s.current_match = 1
                /\ \/ s.status = "ACTIVE"
                   \/ (last'.op = "vote_view" /\ last'.err = "abandoned"
                       /\ s.status = "ABANDONED")]_vars

\* get_or_create_session has failed on the empty pool
C17_Witness ==
    /\ Cardinality(DOMAIN songs) = 0
    /\ sessions = <<>>
    /\ last.op = "get_or_create"
    /\ ~last.ok

\* --------------------------------------------------------------- C18
\* how often item id is placed in round 1 of bracket b
Round1Count(b, id) ==
    Cardinality({i \in 1..(2 * Len(b[1])) : Round1Items(b)[i] = id})

\* C18: round 1 follows the pool-size policy. Pool of n items, 1 < n <
\* target: every pool item is in round 1, each once when n is even, one
\* item twice and all others once when n is odd. n >= target: round 1 has
\* target/2 slots holding target distinct pool items.
C18_PoolPolicy ==
    \A sid \in SessionIds :
        LET b == sessions[sid].bracket_data
            n == Cardinality(DOMAIN songs)
        IN  /\ (1 < n /\ n < TargetSize) =>
                 /\ \A id \in DOMAIN songs : Round1Count(b, id) \in {1, 2}
                 /\ Cardinality({id \in DOMAIN songs : Round1Count(b, id) = 2}) = n % 2
                 /\ 2 * Len(b[1]) = n + (n % 2)
            /\ n >= TargetSize =>
                 /\ 2 * Len(b[1]) = TargetSize
                 /\ \A id \in DOMAIN songs : Round1Count(b, id) \in {0, 1}
                 /\ Cardinality({id \in DOMAIN songs : Round1Count(b, id) = 1}) = TargetSize

\* a session sampled from a pool larger than the target: an item is left out
C18_Witness ==
    /\ Cardinality(DOMAIN songs) > TargetSize
    /\ \E sid \in SessionIds :
          /\ Len(sessions[sid].bracket_data[1]) = TargetSize \div 2
          /\ \E id \in DOMAIN songs : Round1Count(sessions[sid].bracket_data, id) = 0

\* --------------------------------------------------------------- C19
\* the rounds a bracket for n entrants needs: each round halves them,
\* an unpaired entrant going on to the next round
RECURSIVE RoundsNeeded(_)
RoundsNeeded(n) == IF n <= 1 THEN 0 ELSE 1 + RoundsNeeded((n + 1) \div 2)

OwnedBy(c, status) ==
    {sid \in SessionIds : /\ sessions[sid].user = c.user
                          /\ sessions[sid].session_key = c.session_key
                          /\ sessions[sid].status = status}

OwnedAfter(c, status) ==
    {sid \in 1..Len(sessions') : /\ sessions'[sid].user = c.user
                                 /\ sessions'[sid].session_key = c.session_key
                                 /\ sessions'[sid].status = status}

\* C21: starting a new session (create_new) marks every ACTIVE session of
\* the caller ABANDONED and persists a fresh ACTIVE session with the cursor
\* at (1,1), returned with is_existing false; afterwards the caller's only
\* ACTIVE session is the new one, and the sessions of other identities and
\* the caller's COMPLETED sessions are unchanged. If the fresh session
\* cannot be created, the caller's ACTIVE sessions are not left ABANDONED.
C21_StartNew ==
    [][last'.op = "create_new" =>
         LET c == last'
         IN  /\ ~c.is_existing
             /\ c.ok =>
                   /\ c.sid = Len(sessions) + 1
                   /\ Len(sessions') = Len(sessions) + 1
                   /\ sessions'[c.sid].status = "ACTIVE"
                   /\ sessions'[c.sid].current_round = 1
                   /\ sessions'[c.sid].current_match = 1
                   /\ OwnedAfter(c, "ACTIVE") = {c.sid}
                   /\ \A sid \in SessionIds :
                         IF sid \in OwnedBy(c, "ACTIVE")
                         THEN sessions'[sid] =
                                 [sessions[sid] EXCEPT !.status = "ABANDONED"]
                         ELSE sessions'[sid] = sessions[sid]
             /\ ~c.ok => sessions' = sessions]_vars

ExactlyOneIdentity(c) == (c.user # None) # (c.session_key # None)

\* C23: creating or resuming a session requires exactly one identity: a
\* call with both a user and a session key, or with neither, fails and
\* persists no session; no persisted session has both a user and a session
\* key (nor neither, as no call without an identity persists one).
C23_ExactlyOneIdentity ==
    [][/\ (last'.op = "get_or_create" /\ ~ExactlyOneIdentity(last')) =>
             (~last'.ok /\ sessions' = sessions)
       /\ \A sid \in NewRows : ExactlyOneIdentity(sessions'[sid])]_vars

\* --------------------------------------------------------------- C24
\* the positions (round, match) of the slots of session row s
SlotsOf(s) ==
    {rm \in (1..Len(s.bracket_data)) \X (1..MaxPool) :
        rm[2] <= Len(s.bracket_data[rm[1]])}

SlotAt(s, rm) == s.bracket_data[rm[1]][rm[2]]

RECURSIVE CompletedCount(_)
CompletedCount(b) ==
    IF b = <<>> THEN 0
    ELSE Cardinality({i \in 1..Len(b[1]) : b[1][i].completed})
         + CompletedCount(Tail(b))

\* a session object without a bracket (VotingSession.objects.create())
EmptySession == [NoSession EXCEPT !.status = "ACTIVE", !.current_round = 1,
                                  !.current_match = 1]

\* C25: in every state reached by session creation and cast_vote the
\* progress reported for a session has the number of completed slots as its
\* completed count and the number of slots of all rounds as its total, and
\* the percentage is 0 when the total is 0.
C25_ProgressCounts ==
    /\ progress_data(EmptySession).percentage = 0
    /\ \A sid \in SessionIds :
          LET b == sessions[sid].bracket_data
              progress == progress_data(sessions[sid])
          IN  /\ progress.matches_completed = CompletedCount(b)
              /\ progress.matches_total = SlotCount(b)
              /\ SlotCount(b) = 0 => progress.percentage = 0

\* --------------------------------------------------------------- C26
\* C26: progress is not served stale across a vote: when progress is read
\* from a loaded session object, a vote is cast through that object and
\* progress is read again, the completed count of the second reading is one
\* higher than that of the first.
C26_FreshAfterVote ==
    (last.op = "reread" /\ last.ok) =>
        last.readings[2].matches_completed = last.readings[1].matches_completed + 1

\* --------------------------------------------------------------- C27
\* the sessions whose cast_vote call commits in the step
Committing == {procs[p].sid : p \in {q \in Procs : /\ procs[q].pc = "commit"
                                                   /\ procs'[q].pc = "done"}}

\* C27: a cast_vote call on session S, successful or not, leaves the
\* bracket, cursor and status of every other session unchanged and creates
\* Match and Vote records for S only.
C27_OtherSessionsUntouched ==
    [][/\ \A sid \in SessionIds \ Committing :
             /\ sessions'[sid].bracket_data = sessions[sid].bracket_data
             /\ sessions'[sid].current_round = sessions[sid].current_round
             /\ sessions'[sid].current_match = sessions[sid].current_match
             /\ sessions'[sid].status = sessions[sid].status
             /\ MatchesOf(sid)' = MatchesOf(sid)
       /\ matches \subseteq matches'
       /\ \A m \in matches' \ matches : m.session \in Committing
       /\ \A v \in BagToSet(votes') :
             \/ v.session \in Committing
             \/ CopiesIn(v, votes') = CopiesIn(v, votes)]_vars

\* two requests that were in their transactions together have voted in
\* two sessions, and each session holds its own vote
C27_Witness ==
    \E p, q \in OkProcs :
        /\ procs[p].sid # procs[q].sid
        /\ procs[q].attempt >= 1
        /\ \A r \in {p, q} :
              /\ Cardinality(MatchesOf(procs[r].sid)) = 1
              /\ \E m \in MatchesOf(procs[r].sid) : m.winner = procs[r].chosen
        /\ BagCardinality(votes) = 2

\* --------------------------------------------------------------- C28
\* C28: get_round_name returns the canonical label of the current round
\* (1 Round of 64, 2 Round of 32, 3 Round of 16, 4 Quarter-Finals, 5
\* Semi-Finals, 6 Finals, 7 Grand Finals) exactly when the bracket has 7
\* rounds, and the generic label Round N of current round N for every
\* other depth; computing it changes no session state.
C28_RoundNames ==
    [][last'.op = "round_name" =>
         /\ (last'.rounds = 7 /\ last'.current_round \in 1..7) =>
               last'.name = <<<<"Round of 64">>, <<"Round of 32">>,
                               <<"Round of 16">>, <<"Quarter-Finals">>,
                               <<"Semi-Finals">>, <<"Finals">>,
                               <<"Grand Finals">>>>[last'.current_round]
         /\ last'.rounds # 7 => last'.name = <<"Round", last'.current_round>>
         /\ UNCHANGED <<songs, sessions, matches, votes>>]_vars

\* the name of the last round of a bracket of 7 rounds was computed
C28_Witness ==
    /\ last.op = "round_name"
    /\ last.rounds = 7
    /\ last.current_round = 7
    /\ last.name = <<"Grand Finals">>

\* --------------------------------------------------------------- C29
\* C29: in every state reached by session creation and cast_vote the slot
\* at the cursor of an ACTIVE session has an item id on both sides, never
\* an unfilled placeholder, so that get_current_match returns a match and a
\* successful vote that does not complete the session is followed by a
\* votable match.
C29_CursorSlotResolved ==
    \A sid \in SessionIds :
        LET s == sessions[sid]
        IN  s.status = "ACTIVE" =>
              /\ get_current_match_data(s) # <<>>
              /\ GetId(CursorSlot(s).song1) # None
              /\ GetId(CursorSlot(s).song2) # None
              /\ ~NoCurrentMatch(s, FALSE)
              /\ \E chosen \in DOMAIN songs : VoteOutcome(sid, chosen).ok

\* --------------------------------------------------------------- C30
\* C30: a session that has left ACTIVE stays frozen against votes in
\* flight: when a cast_vote call has loaded a session that was ACTIVE and
\* the session is marked ABANDONED by the start of a new session before the
\* call commits, the call does not make the status ACTIVE again and does
\* not change the cursor or the bracket of the abandoned session, and the
\* caller does not get a second ACTIVE session this way.
C30_AbandonedStaysFrozen ==
    [][\A sid \in SessionIds :
         sessions[sid].status = "ABANDONED" =>
            /\ sessions'[sid].status = "ABANDONED"
            /\ sessions'[sid].bracket_data = sessions[sid].bracket_data
            /\ sessions'[sid].current_round = sessions[sid].current_round
            /\ sessions'[sid].current_match = sessions[sid].current_match
            /\ \A c \in Identities :
                  Cardinality(OwnedAfter(c, "ACTIVE")) <= 1]_vars

\* --------------------------------------------------------------- C31
\* the sessions whose row is written by a whole-row save of a handler in
\* the step
SavedByHandler == {procs[p].sid : p \in {q \in Procs : /\ procs[q].pc \in {"rekey", "abandon"}
                                                       /\ procs'[q].pc # procs[q].pc}}

\* C31: a committed vote is never overwritten by a request that loaded the
\* same session earlier: the whole-row save of a session by a handler (the
\* session-key rewrite of the cast_vote view, the vote view marking the
\* session ABANDONED) leaves the cursor and the bracket of the row as the
\* last commit left them, and the cursor of a session that is not COMPLETED
\* never points at a slot that has a Match record.
C31_VoteNotOverwritten ==
    [][\A sid \in SessionIds :
         /\ sid \in SavedByHandler =>
               /\ sessions'[sid].bracket_data = sessions[sid].bracket_data
               /\ sessions'[sid].current_round = sessions[sid].current_round
               /\ sessions'[sid].current_match = sessions[sid].current_match
         /\ sessions'[sid].status # "COMPLETED" =>
               ExistingMatch(matches', sid, sessions'[sid]) = {}]_vars

\* --------------------------------------------------------------- C36
\* the caller of the request recorded in c does not own session row s
NotOwner(c, s) ==
    IF c.user # None THEN s.user # c.user ELSE s.session_key # c.session_key

\* C36: the cast_vote request handler applies a vote only when the caller
\* owns the session: an authenticated caller who is not the session's user
\* and an anonymous caller with another session key than the stored one get
\* an error, and the session, the Match and Vote records and the Item
\* counters are unchanged.
C36_OwnerOnly ==
    [][(last'.op = "cast_vote_view" /\ last'.sid \in SessionIds
        /\ NotOwner(last', sessions[last'.sid])) =>
          /\ ~last'.ok
          /\ UNCHANGED <<songs, sessions, matches, votes>>]_vars

\* --------------------------------------------------------------- C32
\* the Match records of slot rm of session sid
MatchesAt(sid, rm) ==
    {m \in matches : /\ m.session = sid
                     /\ m.round_number = rm[1]
                     /\ m.match_number = rm[2]}

\* the Vote records that refer to the Match record of slot rm of session sid
VotesAt(sid, rm) == {v \in BagToSet(votes) : v.match = <<sid, rm[1], rm[2]>>}

\* C32: in every reachable state, for every session, a Match record exists
\* for (session, round r, match m) if and only if bracket slot (r, m) is
\* completed; the record's song1, song2 and winner are the slot's two items
\* and winner, and exactly one Vote record refers to it, with chosen_song
\* equal to the winner.
C32_MatchIffCompleted ==
    /\ \A m \in matches :
          /\ m.session \in SessionIds
          /\ <<m.round_number, m.match_number>> \in SlotsOf(sessions[m.session])
    /\ \A sid \in SessionIds : \A rm \in SlotsOf(sessions[sid]) :
          LET slot == SlotAt(sessions[sid], rm)
          IN  /\ (MatchesAt(sid, rm) # {}) <=> slot.completed
              /\ Cardinality(MatchesAt(sid, rm)) <= 1
              /\ \A m \in MatchesAt(sid, rm) :
                    /\ m.song1 = slot.song1
                    /\ m.song2 = slot.song2
                    /\ m.winner = slot.winner
                    /\ Cardinality(VotesAt(sid, rm)) = 1
                    /\ \A v \in VotesAt(sid, rm) :
                          /\ CopiesIn(v, votes) = 1
                          /\ v.session = sid
                          /\ v.chosen_song = m.winner
              /\ MatchesAt(sid, rm) = {} => VotesAt(sid, rm) = {}

\* --------------------------------------------------------------- C33
\* slot rm comes before the cursor of session row s
BeforeCursor(s, rm) ==
    \/ rm[1] < s.current_round
    \/ rm[1] = s.current_round /\ rm[2] < s.current_match

\* C33: in every reachable state of an ACTIVE session the slots are decided
\* strictly in cursor order: every slot before the cursor is completed and
\* every slot at or after the cursor is not; so the number of completed
\* slots is the number of slots of all earlier rounds plus current_match - 1.
C33_CursorOrder ==
    \A sid \in SessionIds :
        LET s == sessions[sid]
        IN  s.status = "ACTIVE" =>
              /\ \A rm \in SlotsOf(s) : SlotAt(s, rm).completed <=> BeforeCursor(s, rm)
              /\ CompletedCount(s.bracket_data)
                    = MatchesIn(s.bracket_data, 1, s.current_round - 1)
                      + s.current_match - 1

\* an ACTIVE session in its second round: round 1 is decided, the cursor
\* slot is not
C33_Witness ==
    \E sid \in SessionIds :
        LET s == sessions[sid]
        IN  /\ s.status = "ACTIVE"
            /\ s.current_round = 2
            /\ Len(s.bracket_data[1]) >= 2
            /\ RoundDone(s.bracket_data[1])
            /\ ~CursorSlot(s).completed
            /\ CompletedCount(s.bracket_data) = Len(s.bracket_data[1])

\* --------------------------------------------------------------- C34
\* the sums of the counters of the items 1..n of song table song_tbl
RECURSIVE SumPicks(_, _)
SumPicks(song_tbl, n) ==
    IF n = 0 THEN 0 ELSE song_tbl[n].total_picks + SumPicks(song_tbl, n - 1)

RECURSIVE SumWins(_, _)
SumWins(song_tbl, n) ==
    IF n = 0 THEN 0 ELSE song_tbl[n].total_wins + SumWins(song_tbl, n - 1)

RECURSIVE SumLosses(_, _)
SumLosses(song_tbl, n) ==
    IF n = 0 THEN 0 ELSE song_tbl[n].total_losses + SumLosses(song_tbl, n - 1)

NSongs == Cardinality(DOMAIN songs)

\* C34: in every reachable state the Item counters agree with the committed
\* Match records: the sum of total_picks is twice the number of Match
\* records, the sums of total_wins and of total_losses are the number of
\* Match records; each successful vote raises the sums by exactly 2, 1, 1.
C34_CountersMatchRecords ==
    [][/\ SumPicks(songs', NSongs) = 2 * Cardinality(matches')
       /\ SumWins(songs', NSongs) = Cardinality(matches')
       /\ SumLosses(songs', NSongs) = Cardinality(matches')
       /\ (last'.op = "vote" /\ last'.ok /\ matches' # matches) =>
             /\ SumPicks(songs', NSongs) = SumPicks(songs, NSongs) + 2
             /\ SumWins(songs', NSongs) = SumWins(songs, NSongs) + 1
             /\ SumLosses(songs', NSongs) = SumLosses(songs, NSongs) + 1]_vars

\* --------------------------------------------------------------- C35
\* C35: each identity (user or anonymous session key) has at most one
\* ACTIVE session at any time, under any sequence and any interleaving of
\* get_or_create_session calls and start-new-session requests, also when
\* two concurrent requests of the same identity both find no session.
C35_OneActivePerIdentity ==
    \A c \in Identities : Cardinality(OwnedBy(c, "ACTIVE")) <= 1
====
